---- MODULE Spec2Model ----
(***************************************************************************)
(* Model of microSWIFT_programmer.py: the configuration form               *)
(* (Ui_MainWindow), its feasibility check (verifySettings), the binary     *)
(* encoder (assembleBinaryConfigFile) and the flashing worker (Worker.run).*)
(*                                                                         *)
(* Widgets keep the names of the source.  Text is modelled as sequences    *)
(* of character codes where the code parses it, and as message strings     *)
(* where the code only displays it.                                        *)
(*                                                                         *)
(* Python evaluates the budget rules in double precision.  Every quotient  *)
(* the rules form has a denominator of 30, 60, 240 or 300 and operands     *)
(* below 2^16, so a true difference is either 0 (and then every partial    *)
(* result is an exactly representable number) or at least 1/300 in         *)
(* magnitude, far above the rounding error.  The comparisons are therefore *)
(* modelled exactly, as comparisons of fractions over a common denominator.*)
(***************************************************************************)
EXTENDS Integers, Sequences, FiniteSets, TLC

VARIABLES
    ui,                \* the widgets: value, checked, index, enabled, verify style, status text
    device_connected,  \* Ui_MainWindow.device_connected
    configFile,        \* content of firmware/config.bin, NoFile when absent
    workerPc,          \* position of Worker.run / of the finished signal
    edits,             \* number of operator edits made so far
    verdictConsumed    \* history: assembleBinaryConfigFile ran since the last passing Verify

vars == <<ui, device_connected, configFile, workerPc, edits, verdictConsumed>>

----------------------------------------------------------------------------
(* Bounds of the model *)

\* An operator session makes at most MaxEdits edits of the form
\* (Verify and Program clicks and worker steps are not counted).
MaxEdits == 3

----------------------------------------------------------------------------
(* Program constants *)

FIRMWARE_MAJOR_VERSION == 2
FIRMWARE_MINOR_VERSION == 2

SpinBoxes ==
    {"trackingNumberSpinBox", "gnssNumSamplesSpinBox", "dutyCycleSpinBox",
     "iridiumTxTimeSpinBox", "gnssMaxAcquisitionTimeSpinBox",
     "ctNumSamplesSpinBox", "tempNumSamplesSpinBox",
     "lightNumSamplesSpinBox", "turbidityNumSamplesSpinBox"}

EnableButtons ==
    {"ctEnableButton", "tempEnableButton", "lightEnableButton", "turbidityEnableButton"}

MatchCheckboxes == {"lightMatchGNSSCheckbox", "turbidityMatchGNSSCheckbox"}

Checkables == EnableButtons \cup MatchCheckboxes \cup {"gnssHighPerformanceModeCheckBox"}

ComboBoxes == {"iridiumTypeComboBox", "gnssSampleRateComboBox"}

PushButtons == {"verifyButton", "programButton"}

Widgets == SpinBoxes \cup Checkables \cup ComboBoxes \cup PushButtons

\* setMinimum / setMaximum of each spin box (QSpinBox's default minimum is 0)
SpinMin ==
    [w \in SpinBoxes |->
        CASE w = "gnssNumSamplesSpinBox" -> 1024
          [] w = "iridiumTxTimeSpinBox" -> 2
          [] w \in {"dutyCycleSpinBox", "trackingNumberSpinBox"} -> 0
          [] OTHER -> 1]

SpinMax ==
    [w \in SpinBoxes |->
        CASE w = "trackingNumberSpinBox" -> 1000
          [] w = "gnssNumSamplesSpinBox" -> 32768
          [] w = "dutyCycleSpinBox" -> 1440
          [] w = "iridiumTxTimeSpinBox" -> 60
          [] w = "gnssMaxAcquisitionTimeSpinBox" -> 30
          [] w = "ctNumSamplesSpinBox" -> 1000
          [] w = "tempNumSamplesSpinBox" -> 1000
          [] w = "lightNumSamplesSpinBox" -> 1800
          [] w = "turbidityNumSamplesSpinBox" -> 3600]

\* setProperty("value", ...) of each spin box
SpinDefault ==
    [w \in SpinBoxes |->
        CASE w = "trackingNumberSpinBox" -> 100
          [] w = "gnssNumSamplesSpinBox" -> 4096
          [] w = "dutyCycleSpinBox" -> 30
          [] w = "iridiumTxTimeSpinBox" -> 5
          [] w = "gnssMaxAcquisitionTimeSpinBox" -> 5
          [] w = "ctNumSamplesSpinBox" -> 10
          [] w = "tempNumSamplesSpinBox" -> 10
          [] w = "lightNumSamplesSpinBox" -> 512
          [] w = "turbidityNumSamplesSpinBox" -> 1024]

\* Text of the combo box items, as character codes: "V3D", "V3F", "4 Hz", "5 Hz"
ComboItems ==
    [w \in ComboBoxes |->
        IF w = "iridiumTypeComboBox"
        THEN << <<86, 51, 68>>, <<86, 51, 70>> >>
        ELSE << <<52, 32, 72, 122>>, <<53, 32, 72, 122>> >>]

V3F == <<86, 51, 70>>

\* Status messages
MsgGnssBudget == "Duty cycle not long enough to complete GNSS sample window."
MsgCtBudget == "CT sampling window greater than allotted time of 2 mins."
MsgLightBudget == "Duty cycle not long enough to complete Light sample window."
MsgLightMax == "Max number of light samples is 1800."
MsgTurbidityBudget == "Duty cycle not long enough to complete Turbidity sample window."
MsgTurbidityMax == "Max number of turbidity samples is 3600."
MsgVerified == "Settings verified. You did a great job."
MsgConfigure == "Configure as desired and press the Verify button when ready."
MsgNoStlink == "STLink programmer not detected."
MsgRunning == "Running STM32 Programmer CLI, please wait."
MsgStdout == "<stdout of STM32_Programmer_CLI>"
MsgFailedCode == "Programming Failed with code <returncode>"

\* firmware/config.bin: whether it exists, and its bytes
NoFile == [exists |-> FALSE, bytes |-> <<>>]
FileOf(bytes) == [exists |-> TRUE, bytes |-> bytes]

\* Values of datetime.now() at the moment of encoding
Timestamps ==
    {[year |-> 2024, month |-> 1, day |-> 5, hour |-> 9, minute |-> 7, second |-> 3],
     [year |-> 2026, month |-> 11, day |-> 2, hour |-> 23, minute |-> 59, second |-> 58]}

----------------------------------------------------------------------------
(* Values the operator enters.  Each set holds the minimum, the default    *)
(* and the maximum of the spin box and the values at which a rule of       *)
(* verifySettings changes its answer.                                      *)

SpinChoices ==
    [w \in SpinBoxes |->
        CASE w = "trackingNumberSpinBox" -> {0, 100, 1000}
             \* 14400/4 = 3600 and 14400/4/2 = 1800 are the ceilings; 14408/5 is no integer
          [] w = "gnssNumSamplesSpinBox" -> {1024, 4096, 14400, 14408, 32768}
             \* 23: light and turbidity budgets fail by 1/15 minute at the defaults;
             \* 28 and 29: the GNSS budget fails / holds at the defaults; 71: it is exactly 0
             \* for 14400 samples at 4 Hz
          [] w = "dutyCycleSpinBox" -> {0, 10, 23, 28, 29, 30, 71, 1440}
          [] w = "iridiumTxTimeSpinBox" -> {2, 5, 60}
          [] w = "gnssMaxAcquisitionTimeSpinBox" -> {1, 5, 30}
          [] w = "ctNumSamplesSpinBox" -> {1, 10, 50, 51, 1000}
          [] w = "tempNumSamplesSpinBox" -> {1, 10, 1000}
             \* 510/30 = 17 exactly
          [] w = "lightNumSamplesSpinBox" -> {1, 510, 512, 1800}
             \* 1020/60 = 17 exactly
          [] w = "turbidityNumSamplesSpinBox" -> {1, 1020, 1024, 3600}]

----------------------------------------------------------------------------
(* Helpers *)

Clamp(v, lo, hi) == IF v < lo THEN lo ELSE IF v > hi THEN hi ELSE v

IsDigit(c) == c >= 48 /\ c <= 57

\* re.search(r'\d+', s): the first maximal run of digits of s, <<>> when there is none
RECURSIVE DigitRun(_, _)
DigitRun(s, started) ==
    IF s = <<>> THEN <<>>
    ELSE IF IsDigit(Head(s)) THEN <<Head(s)>> \o DigitRun(Tail(s), TRUE)
    ELSE IF started THEN <<>>
    ELSE DigitRun(Tail(s), FALSE)

\* int(...) of a string of digits
RECURSIVE DigitsToInt(_, _)
DigitsToInt(s, acc) ==
    IF s = <<>> THEN acc ELSE DigitsToInt(Tail(s), acc * 10 + (Head(s) - 48))

\* the lambda get_int_from_str; -1 stands for None
get_int_from_str(s) ==
    LET run == DigitRun(s, FALSE) IN
    IF run = <<>> THEN -1 ELSE DigitsToInt(run, 0)

currentText(g, w) == ComboItems[w][g.index[w] + 1]

\* Exact fractions <<numerator, denominator>>, denominator > 0, standing for the
\* floats of the source (see the note at the head of the module)
FInt(k) == <<k, 1>>
FDiv(f, k) == <<f[1], f[2] * k>>
FAddInt(f, k) == <<f[1] + k * f[2], f[2]>>
FSubInt(f, k) == <<f[1] - k * f[2], f[2]>>
FIntSub(k, f) == <<k * f[2] - f[1], f[2]>>
FNegative(f) == f[1] < 0
FGreaterInt(f, k) == f[1] > k * f[2]
\* int(x): truncation (the quotients of the source are never negative)
FToInt(f) == f[1] \div f[2]

White(lines) == [i \in 1..Len(lines) |-> [colour |-> "white", text |-> lines[i]]]
Red(lines) == [i \in 1..Len(lines) |-> [colour |-> "red", text |-> lines[i]]]

\* statusTextEdit.clear(); setCurrentCharFormat(white); setText(...)
writeText(g, lines) == [g EXCEPT !.text = White(lines)]

\* statusTextEdit.clear(); setCurrentCharFormat(red); setText(...)
writeError(g, lines) == [g EXCEPT !.text = Red(lines)]

appendText(g, line) == [g EXCEPT !.text = @ \o White(<<line>>)]

appendError(g, line) == [g EXCEPT !.text = @ \o Red(<<line>>)]

----------------------------------------------------------------------------
(* Slots of the form.  Each maps the widget state g to the state it leaves. *)

value(g, w) == g.value[w]
isChecked(g, w) == g.checked[w]
setEnabled(g, w, b) == [g EXCEPT !.enabled[w] = b]

\* Mutant: the reset forgets to disable the Program button
resetVerifyButton_KeepsProgram(g) ==
    writeText([g EXCEPT !.style = "gray"], <<MsgConfigure>>)

resetVerifyButton(g) ==
    writeText([g EXCEPT !.enabled["programButton"] = FALSE, !.style = "gray"],
              <<MsgConfigure>>)

\* Mutant: the value is stored without clamping it to the range of the box
setValue_NoClamp(g, w, v) ==
    IF v = g.value[w] THEN g
    ELSE resetVerifyButton([g EXCEPT !.value[w] = v])

\* QSpinBox.setValue on a sample-count spin box: the value is clamped to the
\* range of the box; valueChanged (connected to resetVerifyButton) is emitted
\* only when the value changes
setValue(g, w, v) ==
    LET c == Clamp(v, SpinMin[w], SpinMax[w]) IN
    IF c = g.value[w] THEN g
    ELSE resetVerifyButton([g EXCEPT !.value[w] = c])

gnss_sample_rate(g) == get_int_from_str(currentText(g, "gnssSampleRateComboBox"))

\* int(gnssNumSamples / rate / 2)
lightSamplesFromGnss(g) ==
    FToInt(FDiv(FDiv(FInt(value(g, "gnssNumSamplesSpinBox")), gnss_sample_rate(g)), 2))

\* int(gnssNumSamples / rate)
turbiditySamplesFromGnss(g) ==
    FToInt(FDiv(FInt(value(g, "gnssNumSamplesSpinBox")), gnss_sample_rate(g)))

onLightMatchGnssClicked(g) ==
    IF isChecked(g, "lightMatchGNSSCheckbox")
    THEN resetVerifyButton(
             setValue(setEnabled(g, "lightNumSamplesSpinBox", FALSE),
                      "lightNumSamplesSpinBox", lightSamplesFromGnss(g)))
    ELSE resetVerifyButton(g)

onTurbidityMatchGnssClicked(g) ==
    IF isChecked(g, "turbidityMatchGNSSCheckbox")
    THEN resetVerifyButton(
             setValue(setEnabled(g, "turbidityNumSamplesSpinBox", FALSE),
                      "turbidityNumSamplesSpinBox", turbiditySamplesFromGnss(g)))
    ELSE resetVerifyButton(g)

onCtEnabledClick(g) ==
    resetVerifyButton(
        setEnabled(g, "ctNumSamplesSpinBox", isChecked(g, "ctEnableButton")))

onTempEnabledClick(g) ==
    resetVerifyButton(
        setEnabled(g, "tempNumSamplesSpinBox", isChecked(g, "tempEnableButton")))

onLightEnabledClick(g) ==
    LET on == isChecked(g, "lightEnableButton") IN
    resetVerifyButton(
        setEnabled(setEnabled(g, "lightNumSamplesSpinBox", on),
                   "lightMatchGNSSCheckbox", on))

onTurbidityEnabledClick(g) ==
    LET on == isChecked(g, "turbidityEnableButton") IN
    resetVerifyButton(
        setEnabled(setEnabled(g, "turbidityNumSamplesSpinBox", on),
                   "turbidityMatchGNSSCheckbox", on))

\* The slots connected to a spin box's valueChanged, in connection order
spinValueChanged(g, w) ==
    IF w = "gnssNumSamplesSpinBox"
    THEN onTurbidityMatchGnssClicked(onLightMatchGnssClicked(resetVerifyButton(g)))
    ELSE resetVerifyButton(g)

\* The slots connected to a combo box's currentIndexChanged, in connection order
comboIndexChanged(g, w) ==
    IF w = "gnssSampleRateComboBox"
    THEN resetVerifyButton(onTurbidityMatchGnssClicked(onLightMatchGnssClicked(g)))
    ELSE resetVerifyButton(g)

\* The slot connected to the clicked signal of a checkable button
buttonClicked(g, w) ==
    CASE w = "ctEnableButton" -> onCtEnabledClick(g)
      [] w = "tempEnableButton" -> onTempEnabledClick(g)
      [] w = "lightEnableButton" -> onLightEnabledClick(g)
      [] w = "turbidityEnableButton" -> onTurbidityEnabledClick(g)
      [] w = "lightMatchGNSSCheckbox" -> onLightMatchGnssClicked(g)
      [] w = "turbidityMatchGNSSCheckbox" -> onTurbidityMatchGnssClicked(g)
      [] OTHER -> g

----------------------------------------------------------------------------
(* verifySettings *)

\* Mutant: the sampling time is truncated to whole minutes (// for /)
gnss_duration_Truncated(g) ==
    FInt(FToInt(FDiv(FDiv(FInt(value(g, "gnssNumSamplesSpinBox")),
                          gnss_sample_rate(g)), 60))
         + 1 + value(g, "gnssMaxAcquisitionTimeSpinBox"))

\* gnss_duration = (((num_gnss_samples / gnss_sample_rate) / 60) + 1) + gnss_window_buffer
gnss_duration(g) ==
    FAddInt(FAddInt(FDiv(FDiv(FInt(value(g, "gnssNumSamplesSpinBox")),
                              gnss_sample_rate(g)), 60), 1),
            value(g, "gnssMaxAcquisitionTimeSpinBox"))

\* (duty_cycle - gnss_duration - iridium_tx_time) < 0
gnssBudgetFails(g) ==
    FNegative(FSubInt(FIntSub(value(g, "dutyCycleSpinBox"), gnss_duration(g)),
                      value(g, "iridiumTxTimeSpinBox")))

\* Mutant: >= 2 for > 2
ctBudgetFails_Inclusive(g) ==
    /\ isChecked(g, "ctEnableButton")
    /\ ~FNegative(FSubInt(FDiv(FInt(value(g, "ctNumSamplesSpinBox") * 2 + 20), 60), 2))

\* ct_enabled and ((((ct_num_samples * 2) + 20) / 60) > 2)
ctBudgetFails(g) ==
    /\ isChecked(g, "ctEnableButton")
    /\ FGreaterInt(FDiv(FInt(value(g, "ctNumSamplesSpinBox") * 2 + 20), 60), 2)

\* Mutant: light_num_samples // 30 for light_num_samples / 30
lightBudgetFails_Truncated(g) ==
    value(g, "dutyCycleSpinBox") - (value(g, "lightNumSamplesSpinBox") \div 30 + 1)
        - value(g, "iridiumTxTimeSpinBox") < 0

\* (duty_cycle - ((light_num_samples / 30) + 1) - iridium_tx_time) < 0
lightBudgetFails(g) ==
    FNegative(FSubInt(FIntSub(value(g, "dutyCycleSpinBox"),
                              FAddInt(FDiv(FInt(value(g, "lightNumSamplesSpinBox")), 30), 1)),
                      value(g, "iridiumTxTimeSpinBox")))

\* Mutant: the ceiling is tested on the value of the light spin box
lightMaxFails_SpinBoxValue(g) == value(g, "lightNumSamplesSpinBox") > 1800

\* int(gnssNumSamples / rate / 2) > 1800
lightMaxFails(g) == lightSamplesFromGnss(g) > 1800

\* Mutant: turbidity_num_samples // 60 for turbidity_num_samples / 60
turbidityBudgetFails_Truncated(g) ==
    value(g, "dutyCycleSpinBox") - (value(g, "turbidityNumSamplesSpinBox") \div 60 + 1)
        - value(g, "iridiumTxTimeSpinBox") < 0

\* (duty_cycle - ((turbidity_num_samples / 60) + 1) - iridium_tx_time) < 0
turbidityBudgetFails(g) ==
    FNegative(FSubInt(FIntSub(value(g, "dutyCycleSpinBox"),
                              FAddInt(FDiv(FInt(value(g, "turbidityNumSamplesSpinBox")), 60), 1)),
                      value(g, "iridiumTxTimeSpinBox")))

\* Mutant: the ceiling is tested on the value of the turbidity spin box
turbidityMaxFails_SpinBoxValue(g) == value(g, "turbidityNumSamplesSpinBox") > 3600

\* int(gnssNumSamples / rate) > 3600
turbidityMaxFails(g) == turbiditySamplesFromGnss(g) > 3600

Append1(seq, cond, msg) == IF cond THEN Append(seq, msg) ELSE seq

\* Mutant: the checks stop at the first failure (elif chain)
verify_strings_ShortCircuit(g) ==
    IF gnssBudgetFails(g) THEN <<MsgGnssBudget>>
    ELSE IF ctBudgetFails(g) THEN <<MsgCtBudget>>
    ELSE IF isChecked(g, "lightEnableButton") /\ lightBudgetFails(g) THEN <<MsgLightBudget>>
    ELSE IF isChecked(g, "lightEnableButton") /\ lightMaxFails(g) THEN <<MsgLightMax>>
    ELSE IF isChecked(g, "turbidityEnableButton") /\ turbidityBudgetFails(g)
         THEN <<MsgTurbidityBudget>>
    ELSE IF isChecked(g, "turbidityEnableButton") /\ turbidityMaxFails(g)
         THEN <<MsgTurbidityMax>>
    ELSE <<>>

\* the list verify_strings at the end of the checks
verify_strings(g) ==
    LET s1 == Append1(<<>>, gnssBudgetFails(g), MsgGnssBudget)
        s2 == Append1(s1, ctBudgetFails(g), MsgCtBudget)
        s3 == IF isChecked(g, "lightEnableButton")
              THEN Append1(Append1(s2, lightBudgetFails(g), MsgLightBudget),
                           lightMaxFails(g), MsgLightMax)
              ELSE s2
        s4 == IF isChecked(g, "turbidityEnableButton")
              THEN Append1(Append1(s3, turbidityBudgetFails(g), MsgTurbidityBudget),
                           turbidityMaxFails(g), MsgTurbidityMax)
              ELSE s3
    IN s4

\* the flag settings_invalid at the end of the checks
settings_invalid(g) ==
    \/ gnssBudgetFails(g)
    \/ ctBudgetFails(g)
    \/ isChecked(g, "lightEnableButton") /\ (lightBudgetFails(g) \/ lightMaxFails(g))
    \/ isChecked(g, "turbidityEnableButton")
           /\ (turbidityBudgetFails(g) \/ turbidityMaxFails(g))

\* Mutant: Verify writes the GNSS-derived light count back into the spin box
verifySettings_WritesBack(g) ==
    LET h == [g EXCEPT !.value["lightNumSamplesSpinBox"] =
                  Clamp(lightSamplesFromGnss(g), 1, 1800)]
    IN IF settings_invalid(h)
       THEN writeText([h EXCEPT !.enabled["programButton"] = FALSE, !.style = "red"],
                      verify_strings(h))
       ELSE writeText([h EXCEPT !.enabled["programButton"] = TRUE, !.style = "green"],
                      <<MsgVerified>>)

verifySettings(g) ==
    IF settings_invalid(g)
    THEN writeText([g EXCEPT !.enabled["programButton"] = FALSE, !.style = "red"],
                   verify_strings(g))
    ELSE writeText([g EXCEPT !.enabled["programButton"] = TRUE, !.style = "green"],
                   <<MsgVerified>>)

----------------------------------------------------------------------------
(* Initial state: the form after setupUi *)

\* disableAllOptionalSensors and the setEnabled(False) calls of setupUi
InitiallyDisabled ==
    {"ctNumSamplesSpinBox", "tempNumSamplesSpinBox", "lightNumSamplesSpinBox",
     "turbidityNumSamplesSpinBox", "lightMatchGNSSCheckbox",
     "turbidityMatchGNSSCheckbox", "programButton"}

\* fillComboBoxes runs after connectUIElements: adding the first item of each
\* combo box makes index 0 current and runs the slots of currentIndexChanged
setupUi ==
    LET g0 == [value   |-> SpinDefault,
               checked |-> [w \in Checkables |-> FALSE],
               index   |-> [w \in ComboBoxes |-> 0],
               enabled |-> [w \in Widgets |-> w \notin InitiallyDisabled],
               style   |-> "none",
               text    |-> <<>>]
    IN comboIndexChanged(comboIndexChanged(g0, "iridiumTypeComboBox"),
                         "gnssSampleRateComboBox")

Init ==
    /\ ui = setupUi
    /\ device_connected \in BOOLEAN   \* find_usb_port at the end of setupUi
    /\ configFile = NoFile
    /\ workerPc = "idle"
    /\ edits = 0
    /\ verdictConsumed = FALSE

----------------------------------------------------------------------------
(* Operator actions *)

\* The form accepts input while the event loop of the GUI thread is free
Interactive == workerPc \in {"idle", "firmware", "config", "finished"}

\* The operator changes the value of a spin box
SpinBoxEdited ==
    \E w \in SpinBoxes : \E v \in SpinChoices[w] :
        /\ Interactive
        /\ edits < MaxEdits
        /\ ui.enabled[w]
        /\ v # ui.value[w]
        /\ ui' = spinValueChanged([ui EXCEPT !.value[w] = v], w)
        /\ edits' = edits + 1
        /\ UNCHANGED <<device_connected, configFile, workerPc, verdictConsumed>>

\* The operator selects the other item of a combo box
ComboBoxEdited ==
    \E w \in ComboBoxes :
        /\ Interactive
        /\ edits < MaxEdits
        /\ ui.enabled[w]
        /\ ui' = comboIndexChanged([ui EXCEPT !.index[w] = 1 - @], w)
        /\ edits' = edits + 1
        /\ UNCHANGED <<device_connected, configFile, workerPc, verdictConsumed>>

\* The operator clicks a radio button or a check box.  Each radio button is the
\* only one under its parent widget, so a click toggles it.
CheckableClicked ==
    \E w \in Checkables :
        /\ Interactive
        /\ edits < MaxEdits
        /\ ui.enabled[w]
        /\ ui' = buttonClicked([ui EXCEPT !.checked[w] = ~@], w)
        /\ edits' = edits + 1
        /\ UNCHANGED <<device_connected, configFile, workerPc, verdictConsumed>>

\* The operator clicks Verify
VerifyClicked ==
    /\ Interactive
    /\ ui.enabled["verifyButton"]
    /\ ui' = verifySettings(ui)
    /\ verdictConsumed' = (settings_invalid(ui) /\ verdictConsumed)
    /\ UNCHANGED <<device_connected, configFile, workerPc, edits>>

----------------------------------------------------------------------------
(* assembleBinaryConfigFile *)

TwoDigits(n) == <<48 + ((n \div 10) % 10), 48 + (n % 10)>>
FourDigits(n) == TwoDigits(n \div 100) \o TwoDigits(n % 100)

\* strftime("%m/%d/%Y") + "\x00"
DateString(now) ==
    TwoDigits(now.month) \o <<47>> \o TwoDigits(now.day) \o <<47>>
        \o FourDigits(now.year) \o <<0>>

\* strftime("%H:%M:%S") + "\x00"
TimeString(now) ==
    TwoDigits(now.hour) \o <<58>> \o TwoDigits(now.minute) \o <<58>>
        \o TwoDigits(now.second) \o <<0>>

\* a | b on non-negative integers
RECURSIVE BitOr(_, _)
BitOr(a, b) ==
    IF a = 0 THEN b
    ELSE IF b = 0 THEN a
    ELSE (IF a % 2 = 1 \/ b % 2 = 1 THEN 1 ELSE 0) + 2 * BitOr(a \div 2, b \div 2)

RECURSIVE ShiftLeft(_, _)
ShiftLeft(a, k) == IF k = 0 THEN a ELSE ShiftLeft(2 * a, k - 1)

VersionByte == BitOr(FIRMWARE_MAJOR_VERSION, ShiftLeft(FIRMWARE_MINOR_VERSION, 4))

\* n fits an unsigned 32-bit field: 0 <= n < 2^32, stated on the upper half of n
FitsL(n) == n >= 0 /\ (n \div 65536) < 65536

\* Mutant: ">L" for "<L"
PackL_BigEndian(n) ==
    <<(n \div 16777216) % 256, (n \div 65536) % 256, (n \div 256) % 256, n % 256>>

\* struct format "<L": four bytes, least significant first
PackL(n) == <<n % 256, (n \div 256) % 256, (n \div 65536) % 256, (n \div 16777216) % 256>>

\* struct format "?"
PackBool(b) == IF b THEN <<1>> ELSE <<0>>

\* struct format "<k>s": truncated or padded with zero bytes to k bytes
PackS(str, k) == [i \in 1..k |-> IF i <= Len(str) THEN str[i] ELSE 0]

\* the ten arguments packed as "L", in order
configNumbers(g) ==
    <<value(g, "trackingNumberSpinBox"),
      value(g, "gnssNumSamplesSpinBox"),
      value(g, "dutyCycleSpinBox"),
      value(g, "iridiumTxTimeSpinBox"),
      value(g, "gnssMaxAcquisitionTimeSpinBox"),
      gnss_sample_rate(g),
      value(g, "ctNumSamplesSpinBox"),
      value(g, "tempNumSamplesSpinBox"),
      value(g, "lightNumSamplesSpinBox"),
      value(g, "turbidityNumSamplesSpinBox")>>

\* the six arguments packed as "?", in order
configFlags(g) ==
    <<currentText(g, "iridiumTypeComboBox") = V3F,
      isChecked(g, "gnssHighPerformanceModeCheckBox"),
      isChecked(g, "ctEnableButton"),
      isChecked(g, "tempEnableButton"),
      isChecked(g, "lightEnableButton"),
      isChecked(g, "turbidityEnableButton")>>

RECURSIVE Flatten(_)
Flatten(seqs) == IF seqs = <<>> THEN <<>> ELSE Head(seqs) \o Flatten(Tail(seqs))

\* struct.pack raises struct.error for an "L" argument outside 0..2^32-1 (or
\* None) and for a "B" argument outside 0..255
packRaises(g) ==
    \/ \E i \in 1..10 : ~FitsL(configNumbers(g)[i])
    \/ VersionByte > 255

\* Mutant: the version byte is left out of the record
configStruct_NoVersionByte(g, now) ==
    Flatten([i \in 1..10 |-> PackL(configNumbers(g)[i])])
        \o Flatten([i \in 1..6 |-> PackBool(configFlags(g)[i])])
        \o PackS(DateString(now), 11)
        \o PackS(TimeString(now), 9)

\* configStruct = struct.pack("<LLLLLLLLLL??????B11s9s", ...)
configStruct(g, now) ==
    Flatten([i \in 1..10 |-> PackL(configNumbers(g)[i])])
        \o Flatten([i \in 1..6 |-> PackBool(configFlags(g)[i])])
        \o <<VersionByte>>
        \o PackS(DateString(now), 11)
        \o PackS(TimeString(now), 9)

\* open(configFilePath, "wb") truncates the file; write follows unless pack raised
assembleBinaryConfigFile(g, now) ==
    IF packRaises(g) THEN FileOf(<<>>) ELSE FileOf(configStruct(g, now))

----------------------------------------------------------------------------
(* programDevice, disableGUI, reenableGUI, threadFinished *)

\* Mutant: the Program button is left as it is
disableGUI_LeavesProgram(g) ==
    [g EXCEPT !.enabled = [w \in Widgets |-> w = "programButton" /\ g.enabled[w]]]

disableGUI(g) == [g EXCEPT !.enabled = [w \in Widgets |-> FALSE]]

reenableGUI(g) ==
    [g EXCEPT !.enabled =
        [w \in Widgets |->
            CASE w = "ctNumSamplesSpinBox" ->
                     isChecked(g, "ctEnableButton") \/ g.enabled[w]
              [] w = "tempNumSamplesSpinBox" ->
                     isChecked(g, "tempEnableButton") \/ g.enabled[w]
              [] w \in {"lightMatchGNSSCheckbox", "lightNumSamplesSpinBox"} ->
                     isChecked(g, "lightEnableButton") \/ g.enabled[w]
              [] w \in {"turbidityMatchGNSSCheckbox", "turbidityNumSamplesSpinBox"} ->
                     isChecked(g, "turbidityEnableButton") \/ g.enabled[w]
              [] OTHER -> TRUE]]

\* Mutant: the config file is written before the probe is looked for
ProgramClicked_EncodesFirst ==
    \E found \in BOOLEAN : \E now \in Timestamps :
        /\ Interactive
        /\ ui.enabled["programButton"]
        /\ device_connected' = found
        /\ configFile' = assembleBinaryConfigFile(ui, now)
        /\ verdictConsumed' = TRUE
        /\ IF ~found
           THEN /\ ui' = writeError(ui, <<MsgNoStlink>>)
                /\ UNCHANGED workerPc
           ELSE /\ ui' = disableGUI(writeText(ui, <<MsgRunning>>))
                /\ workerPc' = "firmware"
        /\ UNCHANGED edits

\* The operator clicks Program: programDevice.  found is what find_usb_port
\* detects, now is the clock read by assembleBinaryConfigFile.
ProgramClicked ==
    \E found \in BOOLEAN : \E now \in Timestamps :
        /\ Interactive
        /\ ui.enabled["programButton"]
        /\ device_connected' = found
        /\ IF ~found
           THEN /\ ui' = writeError(ui, <<MsgNoStlink>>)
                /\ UNCHANGED <<configFile, workerPc, verdictConsumed>>
           ELSE /\ configFile' = assembleBinaryConfigFile(ui, now)
                /\ verdictConsumed' = TRUE
                /\ IF packRaises(ui)
                   THEN UNCHANGED <<ui, workerPc>>
                   ELSE /\ ui' = disableGUI(writeText(ui, <<MsgRunning>>))
                        /\ workerPc' = "firmware"
        /\ UNCHANGED edits

----------------------------------------------------------------------------
(* Worker.run.  The text signals of a stage are delivered to the form in    *)
(* emission order and before the finished signal; they are modelled as part *)
(* of the stage.                                                            *)

StageOutcomes == {"zero", "nonzero", "raises"}

\* stdoutAvailable.emit(cleanedText), when the process wrote output that was read
withStdout(g, out) == IF out THEN appendText(g, MsgStdout) ELSE g

\* Mutant: the config download follows a nonzero exit code as well
FirmwareStage_IgnoresExitCode ==
    \E outcome \in StageOutcomes : \E out \in BOOLEAN :
        /\ workerPc = "firmware"
        /\ CASE outcome = "zero" ->
                    /\ ui' = withStdout(ui, out)
                    /\ workerPc' = "config"
             [] outcome = "nonzero" ->
                    /\ ui' = appendError(withStdout(ui, out), MsgFailedCode)
                    /\ workerPc' = "config"
             [] outcome = "raises" ->
                    /\ ui' = ui
                    /\ workerPc' = "crashed"
        /\ UNCHANGED <<device_connected, configFile, edits, verdictConsumed>>

\* First stage: the firmware download.  An exception of Popen or communicate is
\* caught by "except Exception", whose handler calls self.writeError: Worker
\* has no such method, so run ends with AttributeError and emits nothing more.
FirmwareStage ==
    \E outcome \in StageOutcomes : \E out \in BOOLEAN :
        /\ workerPc = "firmware"
        /\ CASE outcome = "zero" ->
                    /\ ui' = withStdout(ui, out)
                    /\ workerPc' = "config"
             [] outcome = "nonzero" ->
                    /\ ui' = appendError(withStdout(ui, out), MsgFailedCode)
                    /\ workerPc' = "finished"
             [] outcome = "raises" ->
                    /\ ui' = ui
                    /\ workerPc' = "crashed"
        /\ UNCHANGED <<device_connected, configFile, edits, verdictConsumed>>

\* Second stage: the download of firmware/config.bin
ConfigStage ==
    \E outcome \in StageOutcomes : \E out \in BOOLEAN :
        /\ workerPc = "config"
        /\ CASE outcome = "zero" ->
                    /\ ui' = withStdout(ui, out)
                    /\ workerPc' = "finished"
             [] outcome = "nonzero" ->
                    /\ ui' = appendError(withStdout(ui, out), MsgFailedCode)
                    /\ workerPc' = "finished"
             [] outcome = "raises" ->
                    /\ ui' = ui
                    /\ workerPc' = "crashed"
        /\ UNCHANGED <<device_connected, configFile, edits, verdictConsumed>>

\* worker.finished is connected to reenableGUI and then to threadFinished
ReenableGUI ==
    /\ workerPc = "finished"
    /\ ui' = reenableGUI(ui)
    /\ workerPc' = "quitting"
    /\ UNCHANGED <<device_connected, configFile, edits, verdictConsumed>>

\* thread.quit(); thread.wait(); os.remove(configFilePath)
ThreadFinished ==
    /\ workerPc = "quitting"
    /\ configFile' = NoFile
    /\ workerPc' = "idle"
    /\ UNCHANGED <<ui, device_connected, edits, verdictConsumed>>

----------------------------------------------------------------------------

Next ==
    \/ SpinBoxEdited
    \/ ComboBoxEdited
    \/ CheckableClicked
    \/ VerifyClicked
    \/ ProgramClicked
    \/ FirmwareStage
    \/ ConfigStage
    \/ ReenableGUI
    \/ ThreadFinished

Spec == Init /\ [][Next]_vars

----------------------------------------------------------------------------
(* The parameter set as the specification names it, read off the widgets    *)
(* without the conversions of the code.                                     *)

P_duty == ui.value["dutyCycleSpinBox"]
P_tx == ui.value["iridiumTxTimeSpinBox"]
P_acq == ui.value["gnssMaxAcquisitionTimeSpinBox"]
P_gnss == ui.value["gnssNumSamplesSpinBox"]
P_rate == IF ui.index["gnssSampleRateComboBox"] = 0 THEN 4 ELSE 5
P_ct == ui.value["ctNumSamplesSpinBox"]
P_light == ui.value["lightNumSamplesSpinBox"]
P_turbidity == ui.value["turbidityNumSamplesSpinBox"]
P_ct_enabled == ui.checked["ctEnableButton"]
P_light_enabled == ui.checked["lightEnableButton"]
P_turbidity_enabled == ui.checked["turbidityEnableButton"]
P_light_match == ui.checked["lightMatchGNSSCheckbox"]
P_turbidity_match == ui.checked["turbidityMatchGNSSCheckbox"]

\* ceil(a / b) for a >= 0, b > 0
CeilDiv(a, b) == (a + b - 1) \div b

\* The status display after the step shows the line msg
Reports(msg) == \E i \in 1..Len(ui'.text) : ui'.text[i].text = msg

\* The status display shows the line msg
Shows(msg) == \E i \in 1..Len(ui.text) : ui.text[i].text = msg

\* The rules as the specification states them
RuleGnssBudget == P_duty - (CeilDiv(P_gnss, P_rate * 60) + 1 + P_acq) - P_tx < 0
RuleCtBudget == P_ct_enabled /\ P_ct > 50
RuleLightBudget == P_light_enabled /\ 30 * P_duty - (P_light + 30) - 30 * P_tx < 0
RuleLightMax == P_light_enabled /\ P_gnss \div (P_rate * 2) > 1800
RuleTurbidityBudget ==
    P_turbidity_enabled /\ 60 * P_duty - (P_turbidity + 60) - 60 * P_tx < 0
RuleTurbidityMax == P_turbidity_enabled /\ P_gnss \div P_rate > 3600

\* The diagnostics of the failing rules
FailingRules ==
    {m \in {MsgGnssBudget, MsgCtBudget, MsgLightBudget, MsgLightMax,
            MsgTurbidityBudget, MsgTurbidityMax} :
        \/ m = MsgGnssBudget /\ RuleGnssBudget
        \/ m = MsgCtBudget /\ RuleCtBudget
        \/ m = MsgLightBudget /\ RuleLightBudget
        \/ m = MsgLightMax /\ RuleLightMax
        \/ m = MsgTurbidityBudget /\ RuleTurbidityBudget
        \/ m = MsgTurbidityMax /\ RuleTurbidityMax}

----------------------------------------------------------------------------
(* Claims *)

\* C1: the encoder runs only on a parameter set that passes every rule of
\* verifySettings: whenever a step writes the config file, the values the
\* form holds at that moment produce no diagnostic.
C1_EncodeOnlyAfterValid ==
    [][(configFile' # configFile /\ configFile'.exists)
          => (~settings_invalid(ui) /\ verify_strings(ui) = <<>>)]_vars

C1_Witness == configFile.exists /\ workerPc = "firmware" /\ edits > 0

\* C2: Verify reports the GNSS-window diagnostic if and only if
\* duty - (ceil(samples / rate / 60) + 1 + max_acquisition) - iridium_tx < 0.
C2_GnssBudgetRule ==
    [][VerifyClicked => (Reports(MsgGnssBudget) <=> RuleGnssBudget)]_vars

\* Verify reported the GNSS diagnostic where the sampling time is no whole
\* number of minutes
C2_Witness ==
    /\ ui.style = "red" /\ Shows(MsgGnssBudget)
    /\ P_gnss % (P_rate * 60) # 0
    /\ P_duty - (CeilDiv(P_gnss, P_rate * 60) + 1 + P_acq) - P_tx = -1

\* C3: Verify reports the Light-window diagnostic if and only if light is
\* enabled and duty - (light_samples/30 + 1) - iridium_tx < 0, the division exact.
C3_LightBudgetRule ==
    [][VerifyClicked => (Reports(MsgLightBudget) <=> RuleLightBudget)]_vars

\* Verify reported the Light diagnostic where only the fraction of
\* light_samples/30 makes the budget negative
C3_Witness ==
    /\ ui.style = "red" /\ Shows(MsgLightBudget)
    /\ P_duty - (P_light \div 30 + 1) - P_tx = 0

\* C4: Verify reports the Turbidity-window diagnostic if and only if turbidity
\* is enabled and duty - (turbidity_samples/60 + 1) - iridium_tx < 0, the
\* division exact.
C4_TurbidityBudgetRule ==
    [][VerifyClicked => (Reports(MsgTurbidityBudget) <=> RuleTurbidityBudget)]_vars

C4_Witness ==
    /\ ui.style = "red" /\ Shows(MsgTurbidityBudget)
    /\ P_duty - (P_turbidity \div 60 + 1) - P_tx = 0

\* C5: Verify reports 'Max number of light samples is 1800' if and only if light
\* is enabled and floor(samples / rate / 2) > 1800, whatever light_match_gnss and
\* light_samples are, and then the verdict is Invalid.
C5_LightCeilingRule ==
    [][VerifyClicked =>
          /\ Reports(MsgLightMax) <=> RuleLightMax
          /\ Reports(MsgLightMax) =>
                 (ui'.style = "red" /\ ~ui'.enabled["programButton"])]_vars

\* Verify reported the light ceiling with the match flag clear and a small
\* light_samples value
C5_Witness ==
    /\ ui.style = "red" /\ Shows(MsgLightMax)
    /\ ~P_light_match /\ P_light <= 1800

\* C6: Verify reports 'Max number of turbidity samples is 3600' if and only if
\* turbidity is enabled and floor(samples / rate) > 3600, whatever
\* turbidity_match_gnss and turbidity_samples are, and then the verdict is Invalid.
C6_TurbidityCeilingRule ==
    [][VerifyClicked =>
          /\ Reports(MsgTurbidityMax) <=> RuleTurbidityMax
          /\ Reports(MsgTurbidityMax) =>
                 (ui'.style = "red" /\ ~ui'.enabled["programButton"])]_vars

C6_Witness ==
    /\ ui.style = "red" /\ Shows(MsgTurbidityMax)
    /\ ~P_turbidity_match /\ P_turbidity <= 3600

\* C7: Verify reports the CT-window diagnostic if and only if CT is enabled and
\* ct_samples > 50; the temperature sample count and the temperature flag
\* change neither the diagnostics nor the verdict.
C7_CtBudgetRule ==
    [][VerifyClicked =>
          /\ Reports(MsgCtBudget) <=> RuleCtBudget
          /\ \A t \in SpinChoices["tempNumSamplesSpinBox"] : \A b \in BOOLEAN :
                 LET other == verifySettings(
                         [ui EXCEPT !.value["tempNumSamplesSpinBox"] = t,
                                    !.checked["tempEnableButton"] = b])
                 IN /\ other.text = ui'.text
                    /\ other.style = ui'.style
                    /\ other.enabled["programButton"] = ui'.enabled["programButton"]]_vars

\* Verify reported the CT diagnostic at 51 samples
C7_Witness == ui.style = "red" /\ Shows(MsgCtBudget) /\ P_ct = 51

\* C8: Verify evaluates every check: the lines it displays are exactly the
\* diagnostics of the failing rules, one line each, and the verdict is Valid
\* (Program enabled) if and only if no rule fails.
C8_AllRulesEvaluated ==
    [][VerifyClicked =>
          IF FailingRules = {}
          THEN /\ ui'.enabled["programButton"]
               /\ ui'.style = "green"
               /\ ui'.text = White(<<MsgVerified>>)
          ELSE /\ ~ui'.enabled["programButton"]
               /\ ui'.style = "red"
               /\ {ui'.text[i].text : i \in 1..Len(ui'.text)} = FailingRules
               /\ Len(ui'.text) = Cardinality(FailingRules)]_vars

\* Verify reported the GNSS budget and the light ceiling together
C8_Witness ==
    /\ ui.style = "red"
    /\ Shows(MsgGnssBudget) /\ Shows(MsgLightMax)
    /\ Len(ui.text) >= 3

\* C9: whenever light_match_gnss is checked, light_samples equals
\* floor(gnss_samples_per_window / gnss_sample_rate_hz / 2).
C9_LightDerivedValue ==
    P_light_match => P_light = P_gnss \div (P_rate * 2)

\* C10: whenever turbidity_match_gnss is checked, turbidity_samples equals
\* floor(gnss_samples_per_window / gnss_sample_rate_hz).
C10_TurbidityDerivedValue ==
    P_turbidity_match => P_turbidity = P_gnss \div P_rate

----------------------------------------------------------------------------
(* Claims C11..C20 *)

\* C11: whenever a match-GNSS flag is checked, the sample-count input of that
\* sensor is disabled.
C11_DerivedGovernsManual ==
    /\ P_light_match => ~ui.enabled["lightNumSamplesSpinBox"]
    /\ P_turbidity_match => ~ui.enabled["turbidityNumSamplesSpinBox"]

\* C12: a Verify click leaves every parameter field unchanged; of the widgets
\* only the enablement of the Program button, the style of the Verify button
\* and the status text change.
C12_VerifyDoesNotMutate ==
    [][VerifyClicked =>
          /\ ui'.value = ui.value
          /\ ui'.checked = ui.checked
          /\ ui'.index = ui.index
          /\ \A w \in Widgets \ {"programButton"} : ui'.enabled[w] = ui.enabled[w]
          /\ UNCHANGED <<device_connected, configFile, workerPc, edits>>]_vars

\* Verify gave an Invalid verdict on a form whose light count differs from the
\* GNSS-derived one
C12_Witness ==
    /\ ui.style = "red"
    /\ P_light_enabled
    /\ P_light # P_gnss \div (P_rate * 2)

\* C13: the record written to the config file is exactly 67 bytes long.
C13_EncodedLength == configFile.exists => Len(configFile.bytes) = 67

\* A record was written for a form away from its defaults
C13_Witness ==
    /\ configFile.exists
    /\ ui.value["trackingNumberSpinBox"] = 1000
    /\ P_gnss # 4096

\* Decoding per the Variant A layout
UnpackL(bytes, offset) ==
    bytes[offset + 1] + 256 * bytes[offset + 2] + 65536 * bytes[offset + 3]
        + 16777216 * bytes[offset + 4]

UnpackBool(bytes, offset) == bytes[offset + 1] # 0

\* "MM/DD/YYYY\0" and "HH:MM:SS\0" of the timestamps, written out
ExpectedStamps ==
    { <<48, 49, 47, 48, 53, 47, 50, 48, 50, 52, 0>>
          \o <<48, 57, 58, 48, 55, 58, 48, 51, 0>>,
      <<49, 49, 47, 48, 50, 47, 50, 48, 50, 54, 0>>
          \o <<50, 51, 58, 53, 57, 58, 53, 56, 0>> }

\* C14: the record written by a Program click decodes, per the Variant A
\* layout (little-endian u32 fields, one byte per flag, version byte, date,
\* time), to the values the form holds.
C14_LayoutRoundTrip ==
    [][(configFile' # configFile /\ configFile'.exists) =>
          LET b == configFile'.bytes IN
          /\ UnpackL(b, 0) = ui.value["trackingNumberSpinBox"]
          /\ UnpackL(b, 4) = P_gnss
          /\ UnpackL(b, 8) = P_duty
          /\ UnpackL(b, 12) = P_tx
          /\ UnpackL(b, 16) = P_acq
          /\ UnpackL(b, 20) = P_rate
          /\ UnpackL(b, 24) = P_ct
          /\ UnpackL(b, 28) = ui.value["tempNumSamplesSpinBox"]
          /\ UnpackL(b, 32) = P_light
          /\ UnpackL(b, 36) = P_turbidity
          /\ UnpackBool(b, 40) = (ui.index["iridiumTypeComboBox"] = 1)
          /\ UnpackBool(b, 41) = ui.checked["gnssHighPerformanceModeCheckBox"]
          /\ UnpackBool(b, 42) = P_ct_enabled
          /\ UnpackBool(b, 43) = ui.checked["tempEnableButton"]
          /\ UnpackBool(b, 44) = P_light_enabled
          /\ UnpackBool(b, 45) = P_turbidity_enabled
          /\ \A i \in 41..46 : b[i] \in {0, 1}
          /\ b[47] = 2 + 16 * 2
          /\ SubSeq(b, 48, 67) \in ExpectedStamps]_vars

\* A record was written whose first four bytes are 1000, least significant
\* byte first, with the V3F modem selected
C14_Witness ==
    /\ configFile.exists
    /\ SubSeq(configFile.bytes, 1, 4) = <<232, 3, 0, 0>>
    /\ configFile.bytes[41] = 1

\* C15: every numeric field lies inside its declared range in every reachable
\* state, hence in every state in which the encoder runs; the version byte
\* fits a byte; struct.pack never raises and a written record is never empty.
C15_NoEncodingRangeError ==
    /\ ui.value["trackingNumberSpinBox"] \in 0..1000
    /\ P_gnss \in 1024..32768
    /\ P_duty \in 0..1440
    /\ P_tx \in 2..60
    /\ P_acq \in 1..30
    /\ gnss_sample_rate(ui) \in {4, 5}
    /\ P_ct \in 1..1000
    /\ ui.value["tempNumSamplesSpinBox"] \in 1..1000
    /\ P_light \in 1..1800
    /\ P_turbidity \in 1..3600
    /\ VersionByte \in 0..255
    /\ ~packRaises(ui)
    /\ configFile.exists => configFile.bytes # <<>>

\* A record was written while the turbidity count held the GNSS-derived value
\* at 5 Hz
C15_Witness ==
    /\ configFile.exists
    /\ P_turbidity_match
    /\ P_rate = 5
    /\ P_turbidity = 819

\* C16: a Program click that finds no probe writes no config file, starts no
\* worker, disables nothing, changes no parameter and displays
\* 'STLink programmer not detected.'.
C16_DeviceNotPresentAbort ==
    [][(~device_connected' /\ ui.enabled["programButton"] /\ ProgramClicked) =>
          /\ configFile' = configFile
          /\ workerPc' = workerPc
          /\ ui'.enabled = ui.enabled
          /\ ui'.value = ui.value
          /\ ui'.checked = ui.checked
          /\ ui'.index = ui.index
          /\ ui'.text = Red(<<MsgNoStlink>>)]_vars

C16_Witness ==
    /\ ui.text = Red(<<MsgNoStlink>>)
    /\ ~device_connected
    /\ ~configFile.exists
    /\ workerPc = "idle"
    /\ ui.enabled["programButton"]

\* The worker is executing run
WorkerRunning == workerPc \in {"firmware", "config"}

\* The finished signal was emitted and its slots have not all run
CompletionPending == workerPc \in {"finished", "quitting"}

\* C17: every worker run ends by emitting finished, on every outcome of the
\* flashing process: a step that ends run leaves the finished signal emitted.
C17_FinishedOnEveryOutcome ==
    [][(WorkerRunning /\ ~WorkerRunning') => workerPc' = "finished"]_vars

\* C18: while the worker runs the config file holds the encoder's record, and
\* the file is deleted once the workflow has ended: it exists only while a run
\* is in progress or its completion is being handled.
C18_ConfigFileLifecycle ==
    /\ WorkerRunning => (configFile.exists /\ Len(configFile.bytes) = 67)
    /\ configFile.exists => (WorkerRunning \/ CompletionPending)

\* C19: every failure leaves an error message on the status display: a worker
\* stage that raises, a firmware stage that returns a nonzero exit code, and a
\* Program click without a probe each end with a red line as the last line.
C19_FailuresSurfaced ==
    [][(\/ WorkerRunning /\ ~WorkerRunning' /\ workerPc' # "finished"
        \/ workerPc = "firmware" /\ workerPc' = "finished"
        \/ ~device_connected' /\ ui.enabled["programButton"] /\ ProgramClicked)
          => (/\ ui'.text # <<>>
              /\ ui'.text[Len(ui'.text)].colour = "red")]_vars

\* C20: after a programming run has ended, in failure or not, the operator can
\* run the workflow again: once no run is in progress and no completion is
\* pending, the Verify button and the parameter inputs that are always
\* available are enabled.
C20_FailureRecoverable ==
    (~WorkerRunning /\ ~CompletionPending) =>
        /\ ui.enabled["verifyButton"]
        /\ ui.enabled["dutyCycleSpinBox"]
        /\ ui.enabled["gnssNumSamplesSpinBox"]

\* assembleBinaryConfigFile ran in this step: the config file was written
EncodeStep == configFile'.exists /\ configFile' # configFile

\* C21: a passing verdict is consumed by at most one encode: the encoder runs
\* only when no encode has happened since the last passing Verify.
C21_VerdictConsumedOnce ==
    [][EncodeStep => ~verdictConsumed]_vars

\* The firmware stage ended in this step
FirmwareStageEnds == workerPc = "firmware" /\ workerPc' # "firmware"

\* The config download was started in this step
ConfigStageStarts == workerPc # "config" /\ workerPc' = "config"

\* The firmware stage reported a nonzero exit code: the line was appended in red
FailedCodeShown(g) ==
    /\ g.text # <<>>
    /\ g.text[Len(g.text)] = [colour |-> "red", text |-> MsgFailedCode]

\* C22: the config download is started exactly when the firmware download has
\* ended with exit code zero: it starts only in the step that ends the
\* firmware stage, and that step starts it if and only if the stage neither
\* reported a nonzero exit code nor raised.
C22_TwoStageOrder ==
    [][/\ ConfigStageStarts => FirmwareStageEnds
       /\ FirmwareStageEnds =>
              (ConfigStageStarts <=>
                   (~FailedCodeShown(ui') /\ workerPc' # "crashed"))]_vars

\* The config download is running after a firmware download that wrote output
C22_Witness ==
    /\ workerPc = "config"
    /\ configFile.exists
    /\ Len(ui.text) = 2

\* A programming run is in flight: started by programDevice, and the slots of
\* the finished signal have not all run
RunInFlight == workerPc \in {"firmware", "config", "finished", "quitting"}

\* C23: nothing interferes with a programming run in flight: until reenableGUI
\* handles the finished signal every parameter input, Verify and Program are
\* disabled, and until threadFinished has run no parameter changes, the config
\* file is not written again and no Program click is served.
C23_NoInterference ==
    [][RunInFlight =>
          /\ workerPc # "quitting" => \A w \in Widgets : ~ui.enabled[w]
          /\ ui'.value = ui.value
          /\ ui'.checked = ui.checked
          /\ ui'.index = ui.index
          /\ ~EncodeStep
          /\ ~ProgramClicked]_vars

\* A run of an edited form has reached the end of Worker.run
C23_Witness ==
    /\ workerPc = "finished"
    /\ configFile.exists
    /\ edits > 0

\* The fields of the form that assembleBinaryConfigFile writes into the record
EncodedFields(g) == <<configNumbers(g), configFlags(g)>>

\* C24: an edit of any field that is written into the encoded record
\* invalidates the verdict: the step that changes such a field leaves the
\* Program button disabled.
C24_EditInvalidatesVerdict ==
    [][EncodedFields(ui') # EncodedFields(ui) => ~ui'.enabled["programButton"]]_vars

\* C25: outside a programming run, the sample-count input of an enabled light
\* or turbidity sensor whose match-GNSS flag is unchecked is enabled for
\* operator entry.
C25_ManualEntryRestored ==
    workerPc = "idle" =>
        /\ (P_light_enabled /\ ~P_light_match) => ui.enabled["lightNumSamplesSpinBox"]
        /\ (P_turbidity_enabled /\ ~P_turbidity_match) =>
               ui.enabled["turbidityNumSamplesSpinBox"]

====
